---- MODULE Spec2Model ----
(***************************************************************************)
(* Model of the workflow orchestrator of youtube-agent-system              *)
(* (src/operations/workflow_orchestrator.py): one workflow of the video    *)
(* production template, driven by execute_workflow coroutines on one       *)
(* asyncio event loop.  An action is one run of a coroutine between two    *)
(* awaits.  The call a step makes into the A2A protocol                    *)
(* (src/protocols/a2a_protocol.py, send_message with wait_for_response)    *)
(* is seen from the orchestrator's side: it settles with a success         *)
(* response, with an error response, or with the timeout response.         *)
(*                                                                         *)
(* The second part models the A2A protocol itself: the message queue, the  *)
(* map of pending responses, the callers of send_message and the coroutine *)
(* start_message_processor.                                                *)
(***************************************************************************)
EXTENDS Integers, FiniteSets, Sequences, TLC

\* ------------------------------------------------------------------ bounds
\* number of execute_workflow coroutines that may be started on the workflow
MaxLoops == 2
\* number of waves that may be dispatched while another execute_workflow
\* coroutine is alive
MaxOverlap == 1
\* number of step calls that may end in a handler failure or a timeout
MaxFailures == 1
\* number of messages that may be created on the bus
MaxMsgs == 2
\* number of broadcast_message calls
MaxBroadcasts == 1
\* number of register_agent calls after the agents have been registered
MaxRegistrations == 1
\* number of execute calls on the quality validator
MaxInvocations == 2
\* number of tasks handed to LongRunningOperation.execute
MaxTasks == 2
\* number of times the operation is paused
MaxPauses == 2

\* ------------------------------------------------- WorkflowStatus (enum)
PENDING == "pending"
RUNNING == "running"
PAUSED == "paused"
COMPLETED == "completed"
FAILED == "failed"
CANCELLED == "cancelled"

WorkflowStatus == {PENDING, RUNNING, PAUSED, COMPLETED, FAILED, CANCELLED}

\* ------------------------------------------- _create_production_steps
Research == {"research_trends", "research_facts", "research_competition"}
Production == {"voiceover_production", "visual_production", "thumbnail_creation"}

Steps == Research \cup {"script_writing"} \cup Production
           \cup {"quality_validation", "final_assembly"}

\* WorkflowStep.dependencies of the template
dependencies(s) ==
  CASE s \in Research -> {}
    [] s = "script_writing" -> Research
    [] s \in Production -> {"script_writing"}
    [] s = "quality_validation" -> Production
    [] s = "final_assembly" -> {"quality_validation"}

\* steps reachable from s along dependency edges (direct or transitive)
RECURSIVE DepsUpTo(_, _)
DepsUpTo(s, n) ==
  IF n = 0 THEN {}
  ELSE dependencies(s) \cup UNION {DepsUpTo(d, n - 1) : d \in dependencies(s)}

TransDeps(s) == DepsUpTo(s, Cardinality(Steps))

\* length (in steps) of the longest dependency chain ending in s
RECURSIVE ChainLen(_)
ChainLen(s) ==
  IF dependencies(s) = {} THEN 1
  ELSE 1 + (CHOOSE m \in 1..Cardinality(Steps) :
              /\ \E d \in dependencies(s) : ChainLen(d) = m
              /\ \A d \in dependencies(s) : ChainLen(d) <= m)

LongestChain ==
  CHOOSE m \in 1..Cardinality(Steps) :
    /\ \E s \in Steps : ChainLen(s) = m
    /\ \A s \in Steps : ChainLen(s) <= m

\* ------------------------------------------------------------------ state
Loops == 1..MaxLoops

\* what the awaited send_message of a step task comes to: "ok" is a response
\* with success = True, "fail" one with success = False (the error response
\* of a handler that raised or of an unknown agent, or the timeout response);
\* _execute_workflow_step raises on either kind of failure alike
Outcomes == {"ok", "fail"}
Unsettled == {"new", "inflight"}

VARIABLES
  wfStatus,        \* workflow["status"]
  stepStatus,      \* step.status, per step
  stepResult,      \* step.result: "none" for None, else "content"
  stepError,       \* step.error: "none" for None, else "fail" (some text)
  results,         \* workflow["results"]: "none" for a missing key
  pc,              \* per execute_workflow coroutine: where it is
  resumed,         \* per coroutine: created by resume_workflow's create_task
  executed_steps,  \* per coroutine: its local set executed_steps
  ready_steps,     \* per coroutine: the wave it awaits in gather
  call,            \* per coroutine and step: the _execute_workflow_step task
  waves,           \* waves dispatched so far, all coroutines together (history)
  failures,        \* calls that have failed or timed out so far (history)
  overlap,         \* waves dispatched beside another live coroutine (history)
  ret              \* the control call made in the last step and what it returned

\* A2AProtocol
VARIABLES
  registered_agents,  \* self.registered_agents: name -> handler
  messages,           \* the AgentMessage objects created so far; id = index
  message_queue,      \* self.message_queue, as the sequence of message ids
  pending_responses,  \* self.pending_responses: the ids that are keys
  future,             \* per message: the asyncio.Future of its caller
  caller,             \* per message: where _send_and_await_response is
  response,           \* per message: what _send_and_await_response returned
  processor,          \* start_message_processor: where it is, on which message
  handled,            \* per message: how its processing went (history)
  invoked,            \* the handler invocations so far, in order (history)
  loopErrors,         \* exceptions caught by start_message_processor (history)
  handledBy,          \* per message: the handler that was invoked (history)
  bcasts,             \* the broadcast_message calls so far (history)
  regs                \* the register_agent calls made since (history)

\* QualityValidatorAgent (one instance, as VideoProductionTeam keeps it)
VARIABLES
  iteration_count,    \* self.iteration_count
  qpc,                \* execute: where the coroutine of the invocation is
  qresults,           \* the dict results of the invocation
  stream,             \* what _assess_quality returns, call after call (input)
  calls,              \* _assess_quality calls of the invocation (history)
  improvements_made,  \* results["improvements_made"]: the components, in order
  applied,            \* iterations that called _apply_improvements (history)
  invocations         \* execute calls so far (history)

orchVars == <<wfStatus, stepStatus, stepResult, stepError, results, pc, resumed,
              executed_steps, ready_steps, call, waves, failures, overlap, ret>>

busLogVars == <<bcasts, regs>>

busVars == <<registered_agents, messages, message_queue, pending_responses,
             future, caller, response, processor, handled, invoked, loopErrors,
             handledBy, busLogVars>>

\* LongRunningOperation (one operation)
VARIABLES
  opState,            \* self.state
  opProgress,         \* self.progress, as <<numerator, denominator>>
  checkpoints,        \* self.checkpoints: type, progress and state of each
  opPc,               \* execute: where its coroutine is
  opIndex,            \* execute: the index i of the for loop
  opTasks,            \* execute: len(tasks)
  opResults,          \* execute: the dict results, as the outcomes in order
  opStarted           \* the indexes of the tasks that were started (history)

opVars == <<opState, opProgress, checkpoints, opPc, opIndex, opTasks, opResults,
            opStarted>>

qualityVars == <<iteration_count, qpc, qresults, stream, calls, invocations,
                 improvements_made, applied>>

vars == <<orchVars, busVars, qualityVars, opVars>>

\* what the bus leaves alone
otherVars == <<orchVars, qualityVars, opVars>>

\* what the quality validator leaves alone
notQualityVars == <<orchVars, busVars, opVars>>

\* what the long-running operation leaves alone
notOpVars == <<orchVars, busVars, qualityVars>>

\* no control call was made in the last step
NoRet == <<"none", FALSE>>

\* ------------------------------------------------------- A2A protocol: data
\* names with a registered handler, and the names a message may be sent to
AgentNames == {"script_writer", "video_editor"}
Receivers == AgentNames \cup {"unknown_agent"}
Priorities == {"normal", "high"}
MsgIds == 1..MaxMsgs

\* the handler functions a name may be registered with
Handlers == {"h1", "h2"}

\* target_agents of broadcast_message: None (not given), or a list
NoTargets == [given |-> FALSE, list |-> <<>>]
TargetLists ==
  {<<>>} \cup {<<a>> : a \in Receivers} \cup {<<a, b>> : a, b \in Receivers}
Targets == {NoTargets} \cup {[given |-> TRUE, list |-> l] : l \in TargetLists}

\* MessageResponse; NoResponse stands for "no response object"
NoResponse ==
  [original_message_id |-> 0, sender |-> "none", content |-> <<>>,
   success |-> FALSE, error_message |-> "none"]

\* what the handler of the receiver returns for message m, and the text of
\* the exception it raises when it fails
HandlerValue(m) == <<messages[m].receiver, m>>
HandlerError == "handler error"

\* the text _process_message gives for a receiver that is not registered
UnknownAgentUnnamed == "Unknown agent"
UnknownAgent == "Unknown agent: unknown_agent"

\* how a handler invocation goes, from its call on: it returns or raises
\* before it ever suspends, or it suspends (an async handler at an await)
Behaviours == {"return", "raise", "suspend"}

\* the response _process_message builds when the handler has returned v
SuccessResponseFromSystem(m, v) ==
  [original_message_id |-> m, sender |-> "system", content |-> v,
   success |-> TRUE, error_message |-> "none"]
SuccessResponse(m, v) ==
  [original_message_id |-> m, sender |-> messages[m].receiver, content |-> v,
   success |-> TRUE, error_message |-> "none"]

\* the response _send_error_response builds
ErrorResponseNoText(m, error) ==
  [original_message_id |-> m, sender |-> "system", content |-> <<>>,
   success |-> FALSE, error_message |-> "none"]
ErrorResponse(m, error) ==
  [original_message_id |-> m, sender |-> "system", content |-> <<>>,
   success |-> FALSE, error_message |-> error]

\* the response _send_and_await_response builds on asyncio.TimeoutError
TimeoutResponse(m) ==
  [original_message_id |-> m, sender |-> "system", content |-> <<>>,
   success |-> FALSE, error_message |-> "Response timeout"]

\* A2AProtocol(): nothing queued, nothing pending; the agents are registered
\* and start_message_processor has not been started
BusInit ==
  /\ registered_agents = [n \in AgentNames |-> "h1"]
  /\ messages = <<>>
  /\ message_queue = <<>>
  /\ pending_responses = {}
  /\ future = [m \in MsgIds |-> [state |-> "none", result |-> NoResponse]]
  /\ caller = [m \in MsgIds |-> "none"]
  /\ response = [m \in MsgIds |-> NoResponse]
  /\ processor = [pc |-> "off", msg |-> 0]
  /\ handled = [m \in MsgIds |-> "none"]
  /\ invoked = <<>>
  /\ loopErrors = 0
  /\ handledBy = [m \in MsgIds |-> "none"]
  /\ bcasts = <<>>
  /\ regs = <<>>

\* QualityValidatorAgent(quality_threshold = 0.8, max_iterations = 5), as
\* VideoProductionTeam constructs it; scores are counted in tenths
quality_threshold == 8
max_iterations == 5

\* overall_score of _assess_quality: below the threshold (two values), equal
\* to it, above it
Scores == {3, 6, 8, 9}

\* what the _assess_quality calls of one invocation return, call after call
Streams == [1..max_iterations -> Scores]

\* the dict results at the start of execute
NewResults ==
  [final_quality_score |-> 0, iterations_performed |-> 0,
   meets_standards |-> FALSE]

\* issues_found of an assessment, as the components that _identify_issues
\* finds below min_component_score: the assessments of the model are one
\* with a low score and two issues, one with a low score and no issue, one
\* that equals the threshold without issue and one above it with an issue
issues_found(score) ==
  CASE score = 3 -> <<"script_quality", "visual_quality">>
    [] score = 6 -> <<>>
    [] score = 8 -> <<>>
    [] score = 9 -> <<"visual_quality">>

\* QualityValidatorAgent(): no invocation yet
QualityInit ==
  /\ iteration_count = 0
  /\ qpc = "idle"
  /\ qresults = NewResults
  /\ stream = <<>>
  /\ calls = 0
  /\ invocations = 0
  /\ improvements_made = <<>>
  /\ applied = {}

\* LongRunningOperation(operation_id, operation_type): execute not called
OpInit ==
  /\ opState = "initialized"
  /\ opProgress = <<0, 1>>
  /\ checkpoints = <<>>
  /\ opPc = "idle"
  /\ opIndex = 0
  /\ opTasks = 0
  /\ opResults = <<>>
  /\ opStarted = {}

\* a step of the orchestrator: the bus is left alone
NoCall == ret' = NoRet /\ UNCHANGED <<busVars, qualityVars, opVars>>
CallReturns(op, value) ==
  ret' = <<op, value>> /\ UNCHANGED <<busVars, qualityVars, opVars>>

\* a call that was given workflow id id
CallReturnsFor(id, op, value) ==
  ret' = <<op, value, id>> /\ UNCHANGED <<busVars, qualityVars, opVars>>

stepVars == <<stepStatus, stepResult, stepError, results>>
loopVars == <<pc, resumed, executed_steps, ready_steps, call, waves>>

\* create_video_production_workflow has run; no coroutine started yet
Init ==
  /\ wfStatus = PENDING
  /\ stepStatus = [s \in Steps |-> PENDING]
  /\ stepResult = [s \in Steps |-> "none"]
  /\ stepError = [s \in Steps |-> "none"]
  /\ results = [s \in Steps |-> "none"]
  /\ pc = [l \in Loops |-> "idle"]
  /\ resumed = [l \in Loops |-> FALSE]
  /\ executed_steps = [l \in Loops |-> {}]
  /\ ready_steps = [l \in Loops |-> {}]
  /\ call = [l \in Loops |-> [s \in Steps |-> "none"]]
  /\ waves = 0
  /\ failures = 0
  /\ overlap = 0
  /\ ret = NoRet
  /\ BusInit
  /\ QualityInit
  /\ OpInit

\* the coroutine slots are used in order
Started == {l \in Loops : pc[l] # "idle"}
Alive == {l \in Loops : pc[l] \in {"scheduled", "gather"}}
FreeSlot(l) == pc[l] = "idle" /\ \A k \in Loops : k < l => pc[k] # "idle"

\* ready_steps of the drive loop: not executed by this loop, dependencies
\* executed by this loop
ReadySteps(E) ==
  {s \in Steps : s \notin E /\ \A dep \in dependencies(s) : dep \in E}

\* failed_steps at the end of execute_workflow
FailedSteps(st) == {s \in Steps : st[s] = FAILED}

\* the while header, the ready computation and the task creation, or the
\* final status computation and the return: coroutine l goes on with
\* executed set E, the step statuses being st and the workflow status ws
\* (gather is called with return_exceptions=True, so no exception reaches
\* the except clause of execute_workflow)
LoopHead(l, E, st, ws) ==
  LET r == ReadySteps(E) IN
  IF Cardinality(E) < Cardinality(Steps) /\ r # {}
  THEN /\ Alive \ {l} # {} => overlap < MaxOverlap
       /\ overlap' = IF Alive \ {l} # {} THEN overlap + 1 ELSE overlap
       /\ pc' = [pc EXCEPT ![l] = "gather"]
       /\ ready_steps' = [ready_steps EXCEPT ![l] = r]
       /\ call' = [call EXCEPT ![l] =
                     [s \in Steps |->
                        IF s \in r THEN "new"
                        ELSE IF call[l][s] \in Unsettled THEN call[l][s]
                        ELSE "none"]]
       /\ waves' = waves + 1
       /\ wfStatus' = ws
  ELSE /\ pc' = [pc EXCEPT ![l] = "done"]
       /\ ready_steps' = [ready_steps EXCEPT ![l] = {}]
       /\ call' = [call EXCEPT ![l] =
                     [s \in Steps |->
                        IF call[l][s] \in Unsettled THEN call[l][s] ELSE "none"]]
       /\ waves' = waves
       /\ overlap' = overlap
       /\ wfStatus' = IF FailedSteps(st) # {} THEN FAILED ELSE COMPLETED

\* ---------------------------------------------------------------- actions
\* execute_workflow from its entry to its first await (or its return)
ExecuteBody(l) ==
  /\ executed_steps' = [executed_steps EXCEPT ![l] = {}]
  /\ LoopHead(l, {}, stepStatus, RUNNING)
  /\ UNCHANGED <<stepVars, failures>>
  /\ NoCall

\* a caller awaits execute_workflow(workflow_id); callers do not call it
\* beside a coroutine that is still alive (resume_workflow does)
Execute(l) ==
  /\ FreeSlot(l)
  /\ Alive = {}
  /\ resumed' = resumed
  /\ ExecuteBody(l)

\* the task resume_workflow created with create_task gets to run
ExecuteResumed(l) ==
  /\ pc[l] = "scheduled"
  /\ resumed' = resumed
  /\ ExecuteBody(l)

\* the tasks gather created for the wave run, one after the other with
\* nothing in between (they are consecutive in the event loop's ready
\* queue): each runs _execute_workflow_step up to the await of send_message
WaveStart(l) ==
  /\ \E s \in Steps : call[l][s] = "new"
  /\ call' = [call EXCEPT ![l] =
                [s \in Steps |-> IF call[l][s] = "new" THEN "inflight" ELSE @[s]]]
  /\ stepStatus' = [s \in Steps |->
                      IF call[l][s] = "new" THEN RUNNING ELSE stepStatus[s]]
  /\ UNCHANGED <<wfStatus, stepResult, stepError, results, pc, resumed,
                 executed_steps, ready_steps, waves, failures, overlap>>
  /\ NoCall

\* send_message returns response o to the task: it returns the content, or
\* it records the error on the step and raises
StepSettle(l, s, o) ==
  /\ call[l][s] = "inflight"
  /\ o # "ok" => failures < MaxFailures
  /\ failures' = IF o = "ok" THEN failures ELSE failures + 1
  /\ call' = [call EXCEPT ![l][s] = o]
  /\ stepError' = [stepError EXCEPT ![s] = IF o = "ok" THEN @ ELSE o]
  /\ UNCHANGED <<wfStatus, stepStatus, stepResult, results, pc, resumed,
                 executed_steps, ready_steps, waves, overlap>>
  /\ NoCall

\* asyncio.gather(*execution_tasks, return_exceptions=True) returns when
\* every task of the wave is done
WaveSettledAny(l) == \E s \in ready_steps[l] : call[l][s] \in Outcomes
WaveSettled(l) == \A s \in ready_steps[l] : call[l][s] \in Outcomes

\* the steps of the wave whose result is no exception: each result is
\* tested on its own (isinstance(result, Exception))
SucceededIfAll(l) ==
  IF \E s \in ready_steps[l] : call[l][s] = "fail" THEN {} ELSE ready_steps[l]
Succeeded(l) == {s \in ready_steps[l] : call[l][s] = "ok"}

\* gather returns: the results of the wave are processed, then the loop
\* goes round (or ends)
GatherDone(l) ==
  /\ pc[l] = "gather"
  /\ WaveSettled(l)
  /\ LET done == {s \in ready_steps[l] : call[l][s] \in Outcomes}
         good == done \cap Succeeded(l)
         bad == done \ good
         st == [s \in Steps |->
                  IF s \in good THEN COMPLETED
                  ELSE IF s \in bad THEN FAILED ELSE stepStatus[s]]
     IN /\ stepStatus' = st
        /\ stepError' = [s \in Steps |->
                           IF s \in bad THEN call[l][s] ELSE stepError[s]]
        /\ stepResult' = [s \in Steps |->
                            IF s \in good THEN "content" ELSE stepResult[s]]
        /\ results' = [s \in Steps |-> IF s \in good THEN "content" ELSE results[s]]
        /\ executed_steps' = [executed_steps EXCEPT ![l] = @ \cup good]
        /\ LoopHead(l, executed_steps[l] \cup good, st, wfStatus)
  /\ UNCHANGED <<resumed, failures>>
  /\ NoCall

\* the test pause_workflow makes before it pauses, and the one
\* resume_workflow makes before it resumes
MayPauseUnstarted(ws) == ws \in {RUNNING, PENDING}
MayPause(ws) == ws = RUNNING
MayResume(ws) == ws = PAUSED

\* pause_workflow: pauses a running workflow and returns True, or returns
\* False
Pause ==
  /\ IF MayPause(wfStatus)
     THEN wfStatus' = PAUSED /\ CallReturns("pause", TRUE)
     ELSE wfStatus' = wfStatus /\ CallReturns("pause", FALSE)
  /\ UNCHANGED <<stepVars, loopVars, failures, overlap>>

\* resume_workflow: the status of a paused workflow goes back to running, a
\* new execute_workflow task is created (it takes slot l) and True is
\* returned; or False is returned
Resume(l) ==
  /\ FreeSlot(l)
  /\ IF MayResume(wfStatus)
     THEN /\ wfStatus' = RUNNING
          /\ pc' = [pc EXCEPT ![l] = "scheduled"]
          /\ resumed' = [resumed EXCEPT ![l] = TRUE]
          /\ CallReturns("resume", TRUE)
     ELSE /\ UNCHANGED <<wfStatus, pc, resumed>>
          /\ CallReturns("resume", FALSE)
  /\ UNCHANGED <<stepVars, executed_steps, ready_steps, call, waves, failures,
                 overlap>>

\* cancel_workflow
Cancel ==
  /\ wfStatus # CANCELLED
  /\ wfStatus' = CANCELLED
  /\ CallReturns("cancel", TRUE)
  /\ UNCHANGED <<stepVars, loopVars, failures, overlap>>

\* workflow_id = f"workflow_{session_id}", for the one session of the model
workflow_id == "workflow_session"

\* "results": {} of the workflow that create_video_production_workflow builds
KeptResults == results
CreatedResults == [s \in Steps |-> "none"]

\* create_video_production_workflow(session_id, topic) for the session that
\* has a workflow already: a new dict with new WorkflowStep objects takes
\* its place in active_workflows, and the id is returned; there is no await
\* in the body.  Coroutines and step tasks that run on the old dict keep
\* their references to it and no longer touch the registered workflow; a
\* task that resume_workflow has created and that has not yet run will look
\* the workflow up by its id and so execute the new one
Create ==
  /\ wfStatus' = PENDING
  /\ stepStatus' = [s \in Steps |-> PENDING]
  /\ stepResult' = [s \in Steps |-> "none"]
  /\ stepError' = [s \in Steps |-> "none"]
  /\ results' = CreatedResults
  /\ pc' = [l \in Loops |-> IF pc[l] = "scheduled" THEN "scheduled" ELSE "idle"]
  /\ resumed' = [l \in Loops |-> pc[l] = "scheduled" /\ resumed[l]]
  /\ executed_steps' = [l \in Loops |-> {}]
  /\ ready_steps' = [l \in Loops |-> {}]
  /\ call' = [l \in Loops |-> [s \in Steps |-> "none"]]
  /\ waves' = 0
  /\ CallReturns("create", workflow_id)
  /\ UNCHANGED <<failures, overlap>>

\* the keys of self.active_workflows: the workflow of the one session
active_workflows == {workflow_id}

\* the ids that callers pass: that of the workflow and one that was never
\* created
WorkflowIds == {workflow_id, "workflow_none"}

\* the statuses get_workflow_status counts as completed_steps
CompletedOnly == {COMPLETED}
CountedStatuses == {COMPLETED, FAILED}

\* round((completed_steps / total_steps) * 100, 2), in hundredths of one
\* per cent (no quotient by the 9 steps lies halfway between two hundredths)
Progress(c, t) == IF t > 0 THEN (2 * 10000 * c + t) \div (2 * t) ELSE 0

\* what get_workflow_status returns for the workflow (the timestamps, which
\* are returned as they are stored, are left out)
StatusReport ==
  LET c == Cardinality({s \in Steps : stepStatus[s] \in CountedStatuses})
      t == Cardinality(Steps)
  IN [status |-> wfStatus,
      progress |-> Progress(c, t),
      completed_steps |-> c,
      total_steps |-> t,
      step_details |->
        [s \in Steps |-> [status |-> stepStatus[s], error |-> stepError[s]]]]

NotFound == [error |-> "Workflow not found"]

\* get_workflow_status(id) as a function of the state
get_workflow_status(id) ==
  IF id \in active_workflows THEN StatusReport ELSE NotFound

\* get_workflow_status(id): no await, nothing is changed
GetStatus(id) ==
  /\ CallReturnsFor(id, "status", get_workflow_status(id))
  /\ UNCHANGED <<wfStatus, stepVars, loopVars, failures, overlap>>

\* status["status"] of a dict without that key
KeyError == [raised |-> "KeyError"]
NotCompleted == [error |-> "Workflow not completed"]

\* get_workflow_results(id): the status is taken from get_workflow_status
\* and its entry "status" is read, whatever get_workflow_status returned
GetResults(id) ==
  /\ LET status == get_workflow_status(id) IN
       CallReturnsFor(id, "results",
         IF "status" \notin DOMAIN status THEN KeyError
         ELSE IF status.status # COMPLETED THEN NotCompleted
         ELSE [results |-> results])
  /\ UNCHANGED <<wfStatus, stepVars, loopVars, failures, overlap>>

\* what execute_workflow, pause_workflow, resume_workflow and
\* cancel_workflow do with an id that is not in active_workflows
AcceptedResult(op) == IF op = "execute" THEN [results |-> {}] ELSE TRUE
NotFoundResult(op) ==
  IF op = "execute" THEN [raised |-> "ValueError"] ELSE FALSE

\* execute_workflow, pause_workflow, resume_workflow or cancel_workflow is
\* called with an id that is not in active_workflows: the test at the entry
\* raises ValueError (execute_workflow) or returns False
Unregistered(op, id) ==
  /\ id \notin active_workflows
  /\ CallReturnsFor(id, op, NotFoundResult(op))
  /\ UNCHANGED <<wfStatus, stepVars, loopVars, failures, overlap>>

Next ==
  \/ \E l \in Loops : Execute(l)
  \/ \E l \in Loops : ExecuteResumed(l)
  \/ \E l \in Loops : WaveStart(l)
  \/ \E l \in Loops, s \in Steps, o \in Outcomes : StepSettle(l, s, o)
  \/ \E l \in Loops : GatherDone(l)
  \/ Pause
  \/ \E l \in Loops : Resume(l)
  \/ Cancel

Spec == Init /\ [][Next]_vars

\* one call of execute_workflow on the new workflow, with pause_workflow and
\* cancel_workflow called at any time and resume_workflow never
NextExec ==
  \/ Execute(1)
  \/ WaveStart(1)
  \/ \E s \in Steps, o \in Outcomes : StepSettle(1, s, o)
  \/ GatherDone(1)
  \/ Pause
  \/ Cancel

SpecExec == Init /\ [][NextExec]_vars

\* the control calls on a workflow that is executed once by its caller and
\* whose step calls all succeed
NextCtl ==
  \/ Execute(1)
  \/ \E l \in Loops : ExecuteResumed(l)
  \/ \E l \in Loops : WaveStart(l)
  \/ \E l \in Loops, s \in Steps : StepSettle(l, s, "ok")
  \/ \E l \in Loops : GatherDone(l)
  \/ Pause
  \/ \E l \in Loops : Resume(l)
  \/ Cancel

SpecCtl == Init /\ [][NextCtl]_vars

\* one execute_workflow call at a time, with the workflow of the session
\* created anew at any time
NextCreate ==
  \/ NextExec
  \/ Create

SpecCreate == Init /\ [][NextCreate]_vars

\* one execute_workflow call, with the queries made at any time
NextQuery ==
  \/ NextExec
  \/ \E id \in WorkflowIds : GetStatus(id)
  \/ \E id \in WorkflowIds : GetResults(id)
  \/ \E id \in WorkflowIds, op \in {"execute", "pause", "resume", "cancel"} :
       Unregistered(op, id)

SpecQuery == Init /\ [][NextQuery]_vars

\* ------------------------------------------------ A2A protocol: actions
\* time can go by only while no coroutine of the bus is ready to run: the
\* processor is not started, is suspended in a handler, or waits on an
\* empty queue
TimeNeverPasses == FALSE
TimeCanPass ==
  \/ processor.pc \in {"off", "handling"}
  \/ processor.pc = "idle" /\ message_queue = <<>>

\* the message queue.get() hands out: asyncio.Queue is first in, first out
GetIndexByPriority(q) ==
  IF \E i \in 1..Len(q) : messages[q[i]].priority = "high"
  THEN CHOOSE i \in 1..Len(q) :
         /\ messages[q[i]].priority = "high"
         /\ \A j \in 1..(i - 1) : messages[q[j]].priority # "high"
  ELSE 1
GetIndex(q) == 1

\* the queue once get() has taken its i-th message
DropNext(q, i) == SubSeq(q, 1, i - 1) \o SubSeq(q, i + 2, Len(q))
RemoveAt(q, i) == SubSeq(q, 1, i - 1) \o SubSeq(q, i + 1, Len(q))

\* message.receiver in self.registered_agents
IsRegistered(r) == r \in DOMAIN registered_agents

\* handler = self.registered_agents[message.receiver]
FirstHandler(r) == "h1"
HandlerOf(r) == registered_agents[r]

\* list(self.registered_agents.keys()): the names in the order in which
\* they were first registered
Keys ==
  SelectSeq(<<"script_writer", "video_editor", "unknown_agent">>, IsRegistered)

\* receivers = target_agents or list(self.registered_agents.keys())
BroadcastReceivers(t) == IF t.given /\ t.list # <<>> THEN t.list ELSE Keys

\* if receiver != sender
AnyReceiver(sender, r) == TRUE
NotSender(sender, r) == r # sender

\* start_message_processor after an exception has reached its except
\* clause: the error is logged and the while loop goes round
LoopAfterError == "idle"

\* the first run of the start_message_processor task, up to queue.get()
StartProcessor ==
  /\ processor.pc = "off"
  /\ processor' = [pc |-> "idle", msg |-> 0]
  /\ UNCHANGED <<registered_agents, messages, message_queue, pending_responses,
                 future, caller, response, handled, invoked, loopErrors,
                 handledBy,
                 busLogVars, otherVars>>

\* send_message(sender, r, type, content, priority = p, wait_for_response =
\* w) up to its first suspension: the message is created and queued; with
\* w the future is created and entered in pending_responses before, and the
\* caller waits in wait_for; without w send_message has returned None
SendMessage(r, p, w) ==
  /\ Len(messages) < MaxMsgs
  /\ LET m == Len(messages) + 1 IN
       /\ messages' = Append(messages,
                             [receiver |-> r, priority |-> p, wait |-> w])
       /\ message_queue' = Append(message_queue, m)
       /\ IF w
          THEN /\ pending_responses' = pending_responses \cup {m}
               /\ future' = [future EXCEPT
                               ![m] = [state |-> "pending", result |-> NoResponse]]
               /\ caller' = [caller EXCEPT ![m] = "waiting"]
          ELSE UNCHANGED <<pending_responses, future, caller>>
  /\ UNCHANGED <<registered_agents, response, processor, handled, invoked,
                 loopErrors, handledBy,
                 busLogVars, otherVars>>

\* future.set_result raises InvalidStateError unless the future is pending
SetResultNeverRaises(m) == FALSE
SetResultRaises(m) == future[m].state # "pending"

\* the end of _process_message for message m, resp being the response for
\* a caller that still has its entry in pending_responses.  set_result
\* raises InvalidStateError on a future that is not pending; raised in
\* the try block it is caught, _send_error_response calls set_result again,
\* and the second InvalidStateError reaches start_message_processor
Finish(m, resp, how) ==
  /\ handled' = [handled EXCEPT ![m] = how]
  /\ IF m \notin pending_responses
     THEN /\ processor' = [pc |-> "idle", msg |-> 0]
          /\ UNCHANGED <<future, loopErrors>>
     ELSE IF SetResultRaises(m)
     THEN /\ loopErrors' = loopErrors + 1
          /\ processor' = [pc |-> LoopAfterError, msg |-> 0]
          /\ UNCHANGED future
     ELSE /\ future' = [future EXCEPT ![m] = [state |-> "done", result |-> resp]]
          /\ processor' = [pc |-> "idle", msg |-> 0]
          /\ UNCHANGED loopErrors

\* queue.get() returns and _process_message runs up to the first
\* suspension of the handler (or to its end); b is what the handler does
ProcessMessage(b) ==
  /\ processor.pc = "idle"
  /\ message_queue # <<>>
  /\ LET i == GetIndex(message_queue)
         m == message_queue[i]
     IN /\ message_queue' = RemoveAt(message_queue, i)
        /\ IF ~IsRegistered(messages[m].receiver)
           THEN /\ b = "return"
                /\ Finish(m, ErrorResponse(m, UnknownAgent), "unknown")
                /\ UNCHANGED <<invoked, handledBy>>
           ELSE /\ invoked' = Append(invoked, m)
                /\ handledBy' = [handledBy EXCEPT
                                   ![m] = HandlerOf(messages[m].receiver)]
                /\ CASE b = "return" ->
                          Finish(m, SuccessResponse(m, HandlerValue(m)),
                                 "returned")
                     [] b = "raise" ->
                          Finish(m, ErrorResponse(m, HandlerError), "raised")
                     [] b = "suspend" ->
                          /\ processor' = [pc |-> "handling", msg |-> m]
                          /\ handled' = [handled EXCEPT ![m] = "running"]
                          /\ UNCHANGED <<future, loopErrors>>
  /\ UNCHANGED <<registered_agents, messages, pending_responses, caller,
                 response, busLogVars,
                 otherVars>>

\* the suspended handler of the message in hand completes: it returns or it
\* raises, and _process_message runs to its end
HandlerDone(b) ==
  /\ processor.pc = "handling"
  /\ b \in {"return", "raise"}
  /\ LET m == processor.msg IN
       IF b = "return"
       THEN Finish(m, SuccessResponse(m, HandlerValue(m)), "returned")
       ELSE Finish(m, ErrorResponse(m, HandlerError), "raised")
  /\ UNCHANGED <<registered_agents, messages, message_queue, pending_responses,
                 caller, response, invoked, handledBy,
                 busLogVars, otherVars>>

\* the timeout of wait_for runs out for the caller of m: the future it
\* waits on is cancelled, and the caller is made ready to run
Timeout(m) ==
  /\ caller[m] = "waiting"
  /\ future[m].state = "pending"
  /\ TimeCanPass
  /\ future' = [future EXCEPT ![m].state = "cancelled"]
  /\ UNCHANGED <<registered_agents, messages, message_queue, pending_responses,
                 caller, response, processor, handled, invoked, loopErrors,
                 handledBy,
                 busLogVars, otherVars>>

\* self.pending_responses.pop(message.message_id, None) in the finally
\* clause of _send_and_await_response
PoppedOnResult(m) ==
  IF future[m].state = "done" THEN pending_responses \ {m}
  ELSE pending_responses
Popped(m) == pending_responses \ {m}

\* the caller of m runs again: wait_for returns the result of the future or
\* raises TimeoutError; the entry is popped in the finally clause and the
\* response is returned
CallerResume(m) ==
  /\ caller[m] = "waiting"
  /\ future[m].state \in {"done", "cancelled"}
  /\ response' = [response EXCEPT
                    ![m] = IF future[m].state = "done" THEN future[m].result
                           ELSE TimeoutResponse(m)]
  /\ pending_responses' = Popped(m)
  /\ caller' = [caller EXCEPT ![m] = "returned"]
  /\ UNCHANGED <<registered_agents, messages, message_queue, future, processor,
                 handled, invoked, loopErrors, handledBy,
                 busLogVars, otherVars>>

\* broadcast_message(sender, type, content, target_agents = t): one
\* send_message without wait_for_response per receiver that is not the
\* sender; put() on the unbounded queue never suspends, so the whole call
\* is one run
Broadcast(sender, t) ==
  LET all == BroadcastReceivers(t)
      rs == SelectSeq(all, LAMBDA r : NotSender(sender, r))
      n == Len(messages)
  IN /\ Len(bcasts) < MaxBroadcasts
     /\ n + Len(rs) <= MaxMsgs
     /\ messages' = messages \o
          [i \in 1..Len(rs) |->
             [receiver |-> rs[i], priority |-> "normal", wait |-> FALSE]]
     /\ message_queue' = message_queue \o [i \in 1..Len(rs) |-> n + i]
     /\ bcasts' = Append(bcasts, [sender |-> sender, targets |-> t,
                                  first |-> n, count |-> Len(rs)])
     /\ UNCHANGED <<registered_agents, pending_responses, future, caller,
                    response, processor, handled, invoked, loopErrors,
                    handledBy, regs, otherVars>>

\* register_agent(n, h): the handler of n is h from now on
Register(n, h) ==
  /\ Len(regs) < MaxRegistrations
  /\ registered_agents' =
       [x \in DOMAIN registered_agents \cup {n} |->
          IF x = n THEN h ELSE registered_agents[x]]
  /\ regs' = Append(regs, [name |-> n, handler |-> h, msgs |-> Len(messages)])
  /\ UNCHANGED <<messages, message_queue, pending_responses, future, caller,
                 response, processor, handled, invoked, loopErrors, handledBy,
                 bcasts, otherVars>>

NextBus ==
  \/ StartProcessor
  \/ \E r \in Receivers, p \in Priorities, w \in BOOLEAN : SendMessage(r, p, w)
  \/ \E b \in Behaviours : ProcessMessage(b)
  \/ \E b \in Behaviours : HandlerDone(b)
  \/ \E m \in MsgIds : Timeout(m)
  \/ \E m \in MsgIds : CallerResume(m)

SpecBus == Init /\ [][NextBus]_vars

\* the bus with every message sent at the default priority
NextBusNormal ==
  \/ StartProcessor
  \/ \E r \in Receivers, w \in BOOLEAN : SendMessage(r, "normal", w)
  \/ \E b \in Behaviours : ProcessMessage(b)
  \/ \E b \in Behaviours : HandlerDone(b)
  \/ \E m \in MsgIds : Timeout(m)
  \/ \E m \in MsgIds : CallerResume(m)

\* the event loop runs every coroutine that is ready, and a timer that has
\* been set goes off; a handler need not ever complete, and nobody need
\* start the processor
SpecBusFair ==
  /\ Init /\ [][NextBusNormal]_vars
  /\ WF_vars(\E b \in Behaviours : ProcessMessage(b))
  /\ \A m \in MsgIds : WF_vars(Timeout(m)) /\ WF_vars(CallerResume(m))

\* broadcasts on a running or not yet running processor
NextBroadcast ==
  \/ StartProcessor
  \/ \E sender \in Receivers, t \in Targets : Broadcast(sender, t)
  \/ \E b \in Behaviours : ProcessMessage(b)
  \/ \E b \in Behaviours : HandlerDone(b)

SpecBroadcast == Init /\ [][NextBroadcast]_vars

\* messages sent without waiting, and agents registered anew
NextRegister ==
  \/ StartProcessor
  \/ \E r \in Receivers : SendMessage(r, "normal", FALSE)
  \/ \E b \in Behaviours : ProcessMessage(b)
  \/ \E b \in Behaviours : HandlerDone(b)
  \/ \E n \in Receivers, h \in Handlers : Register(n, h)

SpecRegister == Init /\ [][NextRegister]_vars

\* ------------------------------------- QualityValidatorAgent: actions
\* current_score >= self.quality_threshold
NeverMeets(score) == FALSE
MeetsThreshold(score) == score >= quality_threshold

\* _generate_improvements: one improvement per issue, in the order of the
\* issues (the component stands for the entry)
GenerateImprovements(issues) == issues

\* execute(task) up to the sleep of its first _assess_quality call, or to
\* its return if the while test fails at once; st is what _assess_quality
\* will return in this invocation.  self.iteration_count is set in __init__
\* only: execute goes on from the value the last invocation left
QExecute(st) ==
  /\ qpc \in {"idle", "returned"}
  /\ invocations < MaxInvocations
  /\ invocations' = invocations + 1
  /\ stream' = st
  /\ qresults' = NewResults
  /\ improvements_made' = <<>>
  /\ applied' = {}
  /\ IF iteration_count < max_iterations
     THEN /\ iteration_count' = iteration_count + 1
          /\ calls' = 1
          /\ qpc' = "assessing"
     ELSE /\ calls' = 0
          /\ qpc' = "returned"
          /\ UNCHANGED iteration_count
  /\ UNCHANGED notQualityVars

\* _assess_quality returns: the score is recorded and tested against the
\* threshold; _generate_improvements and _apply_improvements do not
\* suspend; then execute returns, or the next iteration begins and runs up
\* to the sleep of its _assess_quality call
QAssessReturns ==
  /\ qpc = "assessing"
  /\ LET current_score == stream[calls] IN
       /\ qresults' = [final_quality_score |-> current_score,
                       iterations_performed |-> iteration_count,
                       meets_standards |-> MeetsThreshold(current_score)]
       /\ IF MeetsThreshold(current_score)
          THEN UNCHANGED <<improvements_made, applied>>
          ELSE LET improvements == GenerateImprovements(issues_found(current_score))
               IN /\ improvements_made' = improvements_made \o improvements
                  /\ applied' = IF improvements # <<>> THEN applied \cup {calls}
                                ELSE applied
       /\ IF MeetsThreshold(current_score) \/ iteration_count >= max_iterations
          THEN /\ qpc' = "returned"
               /\ UNCHANGED <<iteration_count, calls>>
          ELSE /\ iteration_count' = iteration_count + 1
               /\ calls' = calls + 1
               /\ qpc' = "assessing"
  /\ UNCHANGED <<stream, invocations, notQualityVars>>

\* the validator of one VideoProductionTeam, invoked once per session
NextQuality ==
  \/ \E st \in Streams : QExecute(st)
  \/ QAssessReturns

SpecQuality == Init /\ [][NextQuality]_vars

\* the streams as far as an invocation can ask for them: the loop stops at
\* the first score that meets the threshold, so what would come after it
\* is left equal to it
StreamsAsked ==
  {st \in Streams :
     \A i \in 1..(max_iterations - 1) :
       st[i] >= quality_threshold => st[i + 1] = st[i]}

\* the validator invoked with these streams
NextImprove ==
  \/ \E st \in StreamsAsked : QExecute(st)
  \/ QAssessReturns

SpecImprove == Init /\ [][NextImprove]_vars

\* --------------------------------------- LongRunningOperation: actions
\* _create_checkpoint(type, data) with the state being st and the progress p
Checkpoint(type, st, p) == [type |-> type, progress |-> p, state |-> st]

\* the state in which execute leaves the operation
FinalState(st) == "completed"

\* execute from the top of the for loop with index i of n tasks, the state
\* being st and the progress p: it waits while the operation is paused, leaves the
\* loop when it is cancelled, and starts task i otherwise; after the loop
\* the state and the progress are set and the results returned
OpLoop(i, n, st, p) ==
  IF i < n /\ st = "paused"
  THEN /\ opPc' = "sleeping"
       /\ opIndex' = i
       /\ opState' = st
       /\ opProgress' = p
       /\ UNCHANGED opStarted
  ELSE IF i < n /\ st # "cancelled"
  THEN /\ opPc' = "task"
       /\ opIndex' = i
       /\ opState' = st
       /\ opProgress' = p
       /\ opStarted' = opStarted \cup {i}
  ELSE /\ opPc' = "done"
       /\ opIndex' = i
       /\ opState' = FinalState(st)
       /\ opProgress' = <<1, 1>>
       /\ UNCHANGED opStarted

\* execute(tasks) with n tasks, up to its first await
OpExecute(n) ==
  /\ opPc = "idle"
  /\ opTasks' = n
  /\ OpLoop(0, n, "running", opProgress)
  /\ UNCHANGED <<checkpoints, opResults, notOpVars>>

\* asyncio.sleep(1) returns to the loop that waits for the resume: the
\* loop is left when the operation is no longer paused
OpWake ==
  /\ opPc = "sleeping"
  /\ opState # "paused"
  /\ OpLoop(opIndex, opTasks, opState, opProgress)
  /\ UNCHANGED <<checkpoints, opTasks, opResults, notOpVars>>

\* task i returns (progress and checkpoint follow) or raises (the error is
\* put in results), and the for loop goes on
OpTaskDone(o) ==
  /\ opPc = "task"
  /\ opResults' = Append(opResults, o)
  /\ UNCHANGED opTasks
  /\ IF o = "return"
     THEN LET p == <<opIndex + 1, opTasks>> IN
            /\ checkpoints' = Append(checkpoints,
                                     Checkpoint("task_completed", opState, p))
            /\ OpLoop(opIndex + 1, opTasks, opState, p)
     ELSE /\ UNCHANGED checkpoints
          /\ OpLoop(opIndex + 1, opTasks, opState, opProgress)
  /\ UNCHANGED notOpVars

\* pause(): a running operation is paused and a checkpoint is made
OpPause ==
  /\ opState = "running"
  /\ Len(SelectSeq(checkpoints, LAMBDA c : c.type = "paused"))
       < MaxPauses
  /\ opState' = "paused"
  /\ checkpoints' = Append(checkpoints, Checkpoint("paused", "paused", opProgress))
  /\ UNCHANGED <<opProgress, opPc, opIndex, opTasks, opResults, opStarted,
                 notOpVars>>

\* resume(): a paused operation runs again and a checkpoint is made
OpResume ==
  /\ opState = "paused"
  /\ opState' = "running"
  /\ checkpoints' = Append(checkpoints, Checkpoint("resumed", "running", opProgress))
  /\ UNCHANGED <<opProgress, opPc, opIndex, opTasks, opResults, opStarted,
                 notOpVars>>

\* cancel(): the state is set, whatever it was
OpCancel ==
  /\ opState # "cancelled"
  /\ opState' = "cancelled"
  /\ UNCHANGED <<opProgress, checkpoints, opPc, opIndex, opTasks, opResults,
                 opStarted, notOpVars>>

NextOp ==
  \/ \E n \in 1..MaxTasks : OpExecute(n)
  \/ OpWake
  \/ \E o \in {"return", "raise"} : OpTaskDone(o)
  \/ OpPause
  \/ OpResume
  \/ OpCancel

SpecOp == Init /\ [][NextOp]_vars

BusTypeOK ==
  /\ message_queue \in Seq(MsgIds)
  /\ pending_responses \subseteq MsgIds
  /\ processor.pc \in {"off", "idle", "handling"}
  /\ loopErrors \in 0..MaxMsgs

TypeOK ==
  /\ wfStatus \in WorkflowStatus
  /\ stepStatus \in [Steps -> {PENDING, RUNNING, COMPLETED, FAILED}]
  /\ failures \in 0..MaxFailures
  /\ overlap \in 0..MaxOverlap
  /\ waves \in Nat

\* ------------------------------------------------------------------ claims
Terminal == {COMPLETED, FAILED}

\* coroutine l puts step s in a new wave in this step: it creates the task
\* that will set the step running and send its message
CreatesTask(l, s) == call[l][s] # "new" /\ call'[l][s] = "new"

\* an execute_workflow coroutine runs its first statements in this step
CoroutineStarts ==
  \E l \in Loops : pc[l] \in {"idle", "scheduled"} /\ pc'[l] \in {"gather", "done"}

\* coroutine l returns in this step
Returns(l) == pc[l] # "done" /\ pc'[l] = "done"

\* C1: one execute_workflow call on the template stops after at most as many
\* waves as the longest dependency chain has steps (5), whatever the calls of
\* the steps come to, and when it has stopped every step is Completed or
\* Failed.
C1_StopsWithinLongestChain ==
  \A l \in Loops :
    Started = {l} =>
      /\ waves <= LongestChain
      /\ pc[l] = "done" => \A s \in Steps : stepStatus[s] \in Terminal

\* C2: if step a depends, directly or transitively, on step b and a call of
\* b has failed, then a is neither Running nor Completed, and when
\* execute_workflow has returned the workflow is Failed, b is Failed and a is
\* still Pending (one execute_workflow call).
C2_FailedDependencyBlocks ==
  \A l \in Loops : \A a \in Steps : \A b \in TransDeps(a) :
    (Started = {l} /\ stepError[b] # "none") =>
      /\ stepStatus[a] \notin {RUNNING, COMPLETED}
      /\ pc[l] = "done" =>
           /\ wfStatus = FAILED
           /\ stepStatus[b] = FAILED
           /\ stepStatus[a] = PENDING

\* C3: once a step is Completed or Failed its status never changes again (a
\* Failed step is not dispatched a second time).
C3_TerminalStepIsFinal ==
  [][\A s \in Steps :
       stepStatus[s] \in Terminal => stepStatus'[s] = stepStatus[s]]_vars

\* C4: in every reachable state a step that is Running or Completed has all
\* its dependencies Completed.
C4_DependenciesCompleted ==
  \A s \in Steps :
    stepStatus[s] \in {RUNNING, COMPLETED} =>
      \A dep \in dependencies(s) : stepStatus[dep] = COMPLETED

\* C5: wave barrier of a drive loop: the loop creates the tasks of its next
\* wave only in a step in which none of the tasks it created before is still
\* unsettled, whatever the order in which the calls of the wave settle.
C5_WaveBarrier ==
  [][\A l \in Loops :
       (\E s \in Steps : CreatesTask(l, s)) =>
         \A x \in Steps : call[l][x] \notin Unsettled]_vars

\* C5 witness: a drive loop awaits its second wave (script_writing), the
\* three calls of its first wave having settled.
C5_Witness ==
  \E l \in Loops :
    /\ pc[l] = "gather"
    /\ ready_steps[l] = {"script_writing"}
    /\ call[l]["script_writing"] = "inflight"
    /\ Research \subseteq executed_steps[l]

\* C6: at most one execute_workflow coroutine is alive on the workflow at any
\* time.
C6_OneDriveLoop == Cardinality(Alive) <= 1

\* C7: when execute_workflow returns, the workflow status is Completed if
\* every step is Completed and Failed otherwise.
C7_FinalStatus ==
  [][\A l \in Loops :
       Returns(l) =>
         /\ wfStatus' \in {COMPLETED, FAILED}
         /\ wfStatus' = COMPLETED <=>
              \A s \in Steps : stepStatus'[s] = COMPLETED]_vars

\* C8: while the workflow is Paused the drive loops that are running dispatch
\* no new wave, and the status stays Paused unless resume_workflow or
\* cancel_workflow changes it.
C8_PausedDispatchesNothing ==
  [][(wfStatus = PAUSED /\ ~CoroutineStarts) =>
       /\ \A l \in Loops : \A s \in Steps : ~CreatesTask(l, s)
       /\ \/ wfStatus' = PAUSED
          \/ wfStatus' = CANCELLED
          \/ wfStatus' = RUNNING /\ \E l \in Loops :
               pc[l] = "idle" /\ pc'[l] = "scheduled"]_vars

\* C9: the coroutine that resume_workflow starts creates no task for a step
\* that is already Completed.
C9_ResumeSkipsCompleted ==
  [][\A l \in Loops : \A s \in Steps :
       (resumed[l] /\ CreatesTask(l, s)) => stepStatus[s] # COMPLETED]_vars

\* C10: once the workflow is Cancelled, the drive loops that are running
\* dispatch no new wave and leave the status Cancelled.
C10_CancelledStays ==
  [][(wfStatus = CANCELLED /\ ~CoroutineStarts) =>
       /\ wfStatus' = CANCELLED
       /\ \A l \in Loops : \A s \in Steps : ~CreatesTask(l, s)]_vars

\* C11: once the status is completed, failed or cancelled (and no
\* execute_workflow coroutine is left alive), no later execute, pause, resume
\* or cancel call changes the status, a step or the results.
C11_TerminalOnce ==
  [][(wfStatus \in {COMPLETED, FAILED, CANCELLED} /\ Alive = {}) =>
       /\ wfStatus' = wfStatus
       /\ stepStatus' = stepStatus
       /\ results' = results]_vars

\* C12: pause_workflow returns True exactly when the status is running and
\* resume_workflow returns True exactly when it is paused; a call that
\* returns False changes neither the status nor the steps, and creates no
\* task.
C12_PauseResumeReturn ==
  [][/\ ret'[1] = "pause" =>
          /\ ret'[2] <=> wfStatus = RUNNING
          /\ ~ret'[2] => UNCHANGED <<wfStatus, stepVars, loopVars>>
     /\ ret'[1] = "resume" =>
          /\ ret'[2] <=> wfStatus = PAUSED
          /\ ~ret'[2] => UNCHANGED <<wfStatus, stepVars, loopVars>>]_vars

C12_Witness ==
  /\ ret = <<"resume", FALSE>>
  /\ wfStatus = RUNNING
  /\ \E l \in Loops : pc[l] = "gather"

\* the messages created so far, and how often x occurs in a sequence
Created == 1..Len(messages)
Count(seq, x) == Cardinality({i \in DOMAIN seq : seq[i] = x})
IsTimeout(resp) ==
  /\ ~resp.success
  /\ resp.sender = "system"
  /\ resp.error_message = "Response timeout"

\* C13: when the handler of m returns at once while the caller of m waits,
\* the future is resolved with success = True, the handler's return value
\* as content and the receiver as sender, and the caller returns just that
\* response; a timeout goes off only while the processor is not running or
\* is suspended in a handler.
C13_ImmediateSuccess ==
  [][\A m \in MsgIds :
       /\ ( /\ handled[m] = "none" /\ handled'[m] = "returned"
            /\ caller[m] = "waiting" /\ future[m].state = "pending" ) =>
            /\ future'[m].state = "done"
            /\ future'[m].result.success
            /\ future'[m].result.content = <<messages[m].receiver, m>>
            /\ future'[m].result.sender = messages[m].receiver
            /\ future'[m].result.error_message = "none"
       /\ ( /\ caller[m] = "waiting" /\ caller'[m] = "returned"
            /\ future[m].state = "done" ) => response'[m] = future[m].result
       /\ (future[m].state = "pending" /\ future'[m].state = "cancelled") =>
            processor.pc \in {"off", "handling"}]_vars

C13_Witness ==
  \E m \in Created :
    /\ caller[m] = "returned"
    /\ handled[m] = "returned"
    /\ response[m].success
    /\ response[m].sender = messages[m].receiver
    /\ response[m].content = <<messages[m].receiver, m>>

\* C14: every call of _send_and_await_response returns in the end, and a
\* call whose message has not been reached by the processor, or whose
\* handler has not completed, returns the timeout response.
C14_EveryCallReturns ==
  /\ [](\A m \in MsgIds :
          (caller[m] = "returned" /\ handled[m] \in {"none", "running"}) =>
            IsTimeout(response[m]))
  /\ \A m \in MsgIds : (caller[m] = "waiting") ~> (caller[m] = "returned")

C14_Witness ==
  \E m \in Created :
    /\ caller[m] = "returned"
    /\ handled[m] = "running"
    /\ IsTimeout(response[m])

\* C15: when the handler of a message whose caller has timed out completes,
\* no future and no response changes, the map of pending responses is
\* left alone, and no exception reaches the processing loop.
C15_LateResultHarmless ==
  [][\A m \in MsgIds :
       ( /\ processor.pc = "handling" /\ processor.msg = m
         /\ processor'.pc # "handling"
         /\ future[m].state = "cancelled" ) =>
         /\ handled'[m] \in {"returned", "raised"}
         /\ UNCHANGED <<future, response, pending_responses, loopErrors>>]_vars

\* C16: a call gets one response, which never changes and carries the id
\* of the call's own message; a future that is resolved or cancelled is
\* never set again, and it is resolved with a response to its own message.
C16_ExactlyOnce ==
  [][\A m \in MsgIds :
       /\ response[m] # NoResponse => response'[m] = response[m]
       /\ caller'[m] = "returned" <=> response'[m] # NoResponse
       /\ caller'[m] = "returned" => response'[m].original_message_id = m
       /\ future[m].state \in {"done", "cancelled"} => future'[m] = future[m]
       /\ future'[m].state = "done" =>
            future'[m].result.original_message_id = m]_vars

C16_Witness ==
  \E m \in Created :
    /\ future[m].state = "cancelled"
    /\ handled[m] = "returned"
    /\ loopErrors > 0
    /\ caller[m] = "returned"
    /\ response[m].original_message_id = m

\* C17: a message for a registered receiver is in the queue or has been
\* passed to the handler, and that once: it is never dropped and never
\* handled twice, whether or not its caller has timed out.
C17_HandledExactlyOnce ==
  \A m \in Created :
    messages[m].receiver \in DOMAIN registered_agents =>
      Count(message_queue, m) + Count(invoked, m) = 1

C17_Witness ==
  /\ invoked = <<1>>
  /\ message_queue = <<2>>
  /\ processor.pc = "idle"
  /\ \A m \in {1, 2} : caller[m] = "returned" /\ IsTimeout(response[m])
  /\ messages[2].receiver \in DOMAIN registered_agents

\* C18: the handlers are invoked in the order in which the messages were
\* queued (message ids are given in that order), whatever the receiver
\* and the priority, and only the last invocation can be unfinished.
C18_FifoOneAtATime ==
  /\ \A i, j \in 1..Len(invoked) : i < j => invoked[i] < invoked[j]
  /\ \A i \in 1..Len(invoked), k \in 1..Len(message_queue) :
       invoked[i] < message_queue[k]
  /\ \A i \in 1..Len(invoked) :
       handled[invoked[i]] = "running" =>
         i = Len(invoked) /\ processor = [pc |-> "handling", msg |-> invoked[i]]

C18_Witness ==
  /\ invoked = <<1, 2>>
  /\ messages[1].priority = "normal" /\ messages[2].priority = "high"
  /\ messages[1].receiver # messages[2].receiver
  /\ handled[2] = "running"

\* C19: when the handler of m has raised, a caller still waiting for m has
\* its future resolved with success = False and the text of the failure,
\* a caller that has returned got that response (or had timed out), and
\* the processing loop is still running.
C19_HandlerFailure ==
  /\ \A m \in Created :
       handled[m] = "raised" =>
         /\ caller[m] = "waiting" => future[m].state \in {"done", "cancelled"}
         /\ (caller[m] = "waiting" /\ future[m].state = "done") =>
              /\ ~future[m].result.success
              /\ future[m].result.error_message = "handler error"
              /\ future[m].result.original_message_id = m
         /\ caller[m] = "returned" =>
              /\ ~response[m].success
              /\ response[m].error_message \in {"handler error", "Response timeout"}
  /\ processor.pc \in {"off", "idle", "handling"}

C19_Witness ==
  /\ Len(messages) = 2
  /\ handled[1] = "raised" /\ handled[2] = "returned"
  /\ caller[1] = "returned"
  /\ response[1].error_message = "handler error"

\* C20 (as stated): a message for a name without a handler fails when it
\* is sent: it is not queued and no caller waits for it.
C20_UnknownFailsAtDispatch ==
  \A m \in Created :
    messages[m].receiver \notin DOMAIN registered_agents =>
      /\ Count(message_queue, m) = 0
      /\ caller[m] # "waiting"
      /\ m \notin pending_responses

\* C20 (amended): a message for a name without a handler is queued like any
\* other; when the processor reaches it no handler is invoked, a caller
\* that waits for it gets success = False from "system" with the text
\* "Unknown agent: <name>" (or the timeout response, if it timed out
\* before), and a caller that does not wait is told nothing.
C20_UnknownAtProcessing ==
  \A m \in Created :
    messages[m].receiver \notin DOMAIN registered_agents =>
      /\ Count(invoked, m) = 0
      /\ handled[m] \in {"none", "unknown"}
      /\ handled[m] = "none" <=> Count(message_queue, m) = 1
      /\ (handled[m] = "unknown" /\ caller[m] = "waiting") =>
           \/ future[m].state = "cancelled"
           \/ /\ future[m].state = "done"
              /\ future[m].result.error_message = "Unknown agent: unknown_agent"
      /\ caller[m] = "returned" =>
           /\ ~response[m].success
           /\ response[m].sender = "system"
           /\ response[m].error_message \in
                {"Unknown agent: unknown_agent", "Response timeout"}
      /\ ~messages[m].wait => caller[m] = "none" /\ response[m] = NoResponse

C20_Witness ==
  \E m \in Created :
    /\ messages[m].receiver \notin DOMAIN registered_agents
    /\ caller[m] = "returned"
    /\ response[m].error_message = "Unknown agent: unknown_agent"

\* the messages that the k-th broadcast_message call created
Sent(k) == (bcasts[k].first + 1)..(bcasts[k].first + bcasts[k].count)

\* the registered agents other than the sender of the k-th broadcast
Others(k) == DOMAIN registered_agents \ {bcasts[k].sender}

\* C21: a broadcast without a target list creates exactly one message for
\* each registered agent other than the sender and none for the sender, and
\* each of these messages stays in the queue until its handler is invoked,
\* once, whatever the handlers of the other deliveries did.
C21_BroadcastToAll ==
  \A k \in 1..Len(bcasts) :
    ~bcasts[k].targets.given =>
      /\ bcasts[k].count = Cardinality(Others(k))
      /\ \A a \in Others(k) :
           Cardinality({m \in Sent(k) : messages[m].receiver = a}) = 1
      /\ \A m \in Sent(k) :
           /\ messages[m].receiver \in Others(k)
           /\ Count(message_queue, m) + Count(invoked, m) = 1
           /\ (message_queue = <<>> /\ processor.pc = "idle") =>
                handled[m] \in {"returned", "raised"}

\* a broadcast to two agents: the handler of the first delivery has raised,
\* the second delivery has been handled all the same
C21_Witness ==
  \E k \in 1..Len(bcasts) :
    /\ ~bcasts[k].targets.given
    /\ bcasts[k].count = 2
    /\ handled[bcasts[k].first + 1] = "raised"
    /\ handled[bcasts[k].first + 2] = "returned"
    /\ Count(invoked, bcasts[k].first + 2) = 1

\* C22: a broadcast with a target list that is given, the empty list
\* included, creates messages only for the listed targets other than the
\* sender.
C22_OnlyListedTargets ==
  \A k \in 1..Len(bcasts) :
    bcasts[k].targets.given =>
      \A m \in Sent(k) :
        /\ messages[m].receiver # bcasts[k].sender
        /\ \E i \in 1..Len(bcasts[k].targets.list) :
             bcasts[k].targets.list[i] = messages[m].receiver

\* the handler that the latest register_agent call for name n has given it
LatestHandler(n) ==
  LET ks == {k \in 1..Len(regs) : regs[k].name = n}
  IN IF ks = {} THEN "h1"
     ELSE regs[CHOOSE k \in ks : \A j \in ks : j <= k].handler

\* C30: whenever a handler is invoked for a message, it is the handler of
\* the latest registration of the receiver's name, also for a message that
\* was queued before that registration; a replaced handler is not invoked.
C30_LatestHandlerInvoked ==
  [][\A m \in MsgIds :
       (Count(invoked, m) = 0 /\ Count(invoked', m) = 1) =>
         handledBy'[m] = LatestHandler(messages[m].receiver)]_vars

\* a message for a registered agent was queued, the agent was registered
\* again with another handler, and the message went to the new handler
C30_Witness ==
  \E m \in Created :
    /\ regs # <<>>
    /\ regs[1].name \in AgentNames
    /\ regs[1].handler = "h2"
    /\ m <= regs[1].msgs
    /\ messages[m].receiver = regs[1].name
    /\ handledBy[m] = "h2"

\* execute has returned its results
Returned == qpc = "returned"

\* the first score of the stream that reaches the threshold is its i-th
FirstMet(i) ==
  /\ stream[i] >= quality_threshold
  /\ \A j \in 1..(i - 1) : stream[j] < quality_threshold

\* C23: when the first score that reaches the threshold (equality counts)
\* is that of iteration i <= max_iterations, the invocation makes exactly i
\* iterations and returns meets_standards with that score as final score.
C23_StopsAtFirstGoodScore ==
  Returned =>
    \A i \in 1..max_iterations :
      FirstMet(i) =>
        /\ calls = i
        /\ qresults.iterations_performed = i
        /\ qresults.meets_standards
        /\ qresults.final_quality_score = stream[i]

\* C24: an invocation never makes more than max_iterations iterations, and
\* when no score reaches the threshold it makes exactly max_iterations (one
\* _assess_quality call each) and returns meets_standards = False with the
\* last score as final score.
C24_BudgetUsedUp ==
  /\ calls <= max_iterations
  /\ (Returned /\ \A i \in 1..max_iterations : stream[i] < quality_threshold) =>
       /\ calls = max_iterations
       /\ qresults.iterations_performed = max_iterations
       /\ ~qresults.meets_standards
       /\ qresults.final_quality_score = stream[max_iterations]

\* what an invocation that starts from iteration 0 returns on stream st
FreshResults(st) ==
  LET stop == IF \E i \in 1..max_iterations : st[i] >= quality_threshold
              THEN CHOOSE i \in 1..max_iterations :
                     /\ st[i] >= quality_threshold
                     /\ \A j \in 1..(i - 1) : st[j] < quality_threshold
              ELSE max_iterations
  IN [final_quality_score |-> st[stop], iterations_performed |-> stop,
      meets_standards |-> st[stop] >= quality_threshold]

\* C25: every invocation counts its iterations from 0, and what it returns
\* is determined by the scores of its own _assess_quality calls, whatever
\* earlier invocations on the same validator did.
C25_FreshLoopState ==
  /\ qpc = "assessing" => iteration_count = calls
  /\ Returned => qresults = FreshResults(stream)

\* C26: the final score is the score of the last _assess_quality call of
\* the invocation, also after a higher earlier score, and
\* iterations_performed is the number of _assess_quality calls made.
C26_LastScoreReported ==
  Returned =>
    /\ qresults.iterations_performed = calls
    /\ calls > 0 => qresults.final_quality_score = stream[calls]

\* the steps that may be dispatched when the statuses are st: Pending, with
\* every dependency Completed
PendingReady(st) ==
  {s \in Steps : st[s] = PENDING /\ \A d \in dependencies(s) : st[d] = COMPLETED}

\* coroutine l comes back from gather and marks the steps of its wave
WaveProcessed(l) ==
  /\ pc[l] = "gather"
  /\ \E s \in ready_steps[l] : stepStatus[s] = RUNNING /\ stepStatus'[s] \in Terminal

\* C27: when the drive loop, having processed a wave, has no step that is
\* Pending with all its dependencies Completed while some step is not yet
\* Completed or Failed, it stops and sets the workflow status to Failed.
C27_StuckStopsFailed ==
  [][\A l \in Loops :
       (/\ WaveProcessed(l)
        /\ PendingReady(stepStatus') = {}
        /\ \E s \in Steps : stepStatus'[s] \notin Terminal) =>
         (pc'[l] = "done" /\ wfStatus' = FAILED)]_vars

\* C28: when gather returns, each step of the wave is marked by its own
\* outcome: Failed with the error kept on the step if its call failed or
\* timed out, Completed with its result otherwise; and after a failure the
\* drive loop goes on to its next wave, the workflow status untouched.
C28_FailureConfined ==
  [][\A l \in Loops :
       WaveProcessed(l) =>
         /\ \A s \in ready_steps[l] :
              /\ call[l][s] = "ok" =>
                   /\ stepStatus'[s] = COMPLETED
                   /\ stepResult'[s] = "content"
                   /\ results'[s] = "content"
              /\ call[l][s] = "fail" =>
                   /\ stepStatus'[s] = FAILED
                   /\ stepError'[s] = "fail"
         /\ (\E s \in ready_steps[l] : call[l][s] = "fail") =>
              /\ pc'[l] = "gather"
              /\ wfStatus' = wfStatus]_vars

\* a wave of three steps has been processed: one is Failed with its error,
\* the two others are Completed, and the loop has dispatched its next wave
C28_Witness ==
  \E l \in Loops, s \in Research :
    /\ stepStatus[s] = FAILED
    /\ stepError[s] = "fail"
    /\ \A t \in Research \ {s} : stepStatus[t] = COMPLETED /\ results[t] = "content"
    /\ pc[l] = "gather"
    /\ s \in ready_steps[l]

\* the registered workflow is as new: Pending, without results, every step
\* Pending without result or error
AsNew ==
  /\ wfStatus = PENDING
  /\ \A s \in Steps :
       /\ results[s] = "none"
       /\ stepStatus[s] = PENDING
       /\ stepResult[s] = "none"
       /\ stepError[s] = "none"

\* the dependencies of the template: inside the workflow, without cycle or
\* self-dependency, and of the stated shape
TemplateShape ==
  /\ \A s \in Steps : dependencies(s) \subseteq Steps /\ s \notin TransDeps(s)
  /\ \A s \in Research : dependencies(s) = {}
  /\ dependencies("script_writing") = Research
  /\ \A s \in Production : dependencies(s) = {"script_writing"}
  /\ dependencies("quality_validation") = Production
  /\ dependencies("final_assembly") = {"quality_validation"}

\* C29: the workflow is as new after construction and in the very step in
\* which create_video_production_workflow returns its id, whatever became
\* of the workflow registered before; and the template's dependencies are
\* acyclic, name steps of the workflow only and have the stated shape.
C29_CreatedAsNew ==
  /\ AsNew
  /\ TemplateShape
  /\ [][ret' = <<"create", workflow_id>> => AsNew']_vars

\* the workflow was created anew after a run in which a step call had
\* failed
C29_Witness ==
  /\ ret = <<"create", workflow_id>>
  /\ failures > 0
  /\ AsNew

\* the number of steps that are Completed or Failed
TerminalCount == Cardinality({s \in Steps : stepStatus[s] \in Terminal})

\* a status query on the workflow has just returned
StatusReturned == ret[1] = "status" /\ ret[3] \in active_workflows

\* C31: the status query reports as progress the fraction of the steps
\* that are Completed or Failed, a value between 0 and 1 (100 hundredths
\* of one per cent).
C31_ProgressFraction ==
  StatusReturned =>
    /\ ret[2].progress <= 100
    /\ ret[2].progress * Cardinality(Steps) = 100 * TerminalCount

\* C31 (amended): the status query reports as progress the percentage of
\* the steps that are Completed or Failed, rounded to two decimals, a value
\* between 0 and 100, with the workflow status and the status and error of
\* every step as they are, at any time.
C31_ProgressPercent ==
  StatusReturned =>
    /\ ret[2].progress \in 0..10000
    /\ LET d == ret[2].progress * Cardinality(Steps) - 10000 * TerminalCount
       IN 2 * d <= Cardinality(Steps) /\ -2 * d <= Cardinality(Steps)
    /\ ret[2].status = wfStatus
    /\ \A s \in Steps :
         /\ ret[2].step_details[s].status = stepStatus[s]
         /\ ret[2].step_details[s].error = stepError[s]

\* the query is made when two steps are Completed and one is Failed: 33.33
C31_Witness ==
  /\ StatusReturned
  /\ \E s \in Steps : stepStatus[s] = FAILED /\ ret[2].step_details[s].error = "fail"
  /\ TerminalCount = 3
  /\ ret[2].progress = 3333

\* the last step was a call with an id that is not in the registry
OnMissingId == Len(ret) = 3 /\ ret[3] \notin active_workflows

\* C37: a call with an id that is not in the registry changes nothing of
\* the registered workflow and creates none; execute_workflow raises,
\* pause, resume and cancel return False, the status query returns an
\* error value.
C37_MissingIdRejected ==
  [][OnMissingId' =>
       /\ UNCHANGED <<wfStatus, stepVars, loopVars>>
       /\ active_workflows' = active_workflows
       /\ ret'[1] = "execute" => "raised" \in DOMAIN ret'[2]
       /\ ret'[1] \in {"pause", "resume", "cancel"} => ret'[2] = FALSE
       /\ ret'[1] = "status" => DOMAIN ret'[2] = {"error"}]_vars

\* pause was refused for the missing id while the workflow was running
C37_Witness ==
  /\ OnMissingId
  /\ ret[1] = "pause"
  /\ ret[2] = FALSE
  /\ wfStatus = RUNNING

\* C38: get_workflow_results returns the results mapping exactly when the
\* workflow is Completed, then with a result for every step, and an error
\* value in every other case, a missing id included; it never raises.
C38_ResultsOnlyWhenCompleted ==
  ret[1] = "results" =>
    /\ "raised" \notin DOMAIN ret[2]
    /\ "results" \in DOMAIN ret[2] <=>
         (ret[3] \in active_workflows /\ wfStatus = COMPLETED)
    /\ "results" \in DOMAIN ret[2] =>
         /\ ret[2].results = results
         /\ \A s \in Steps : results[s] # "none"
    /\ "results" \notin DOMAIN ret[2] => "error" \in DOMAIN ret[2]

\* C35: create_video_production_workflow returns an id that no workflow in
\* the registry has, and leaves the workflows that are in the registry as
\* they are, also when it is called again for the same session.
C35_CreateLeavesOthers ==
  [][ret'[1] = "create" =>
       /\ ret'[2] \notin active_workflows
       /\ UNCHANGED <<wfStatus, stepVars>>]_vars

\* C32: a step has a result if and only if it is Completed, and an error
\* if and only if it is Failed.
C32_ResultIffCompleted ==
  \A s \in Steps :
    /\ stepResult[s] # "none" <=> stepStatus[s] = COMPLETED
    /\ stepError[s] # "none" <=> stepStatus[s] = FAILED

\* C33: the results mapping has an entry for exactly the steps that are
\* Completed, which is the step's own result, and an entry that is there
\* stays as it is.
C33_ResultsOfCompleted ==
  /\ [](\A s \in Steps :
         /\ results[s] # "none" <=> stepStatus[s] = COMPLETED
         /\ results[s] = stepResult[s])
  /\ [][\A s \in Steps : results[s] # "none" => results'[s] = results[s]]_vars

\* C36: pending_responses holds exactly the ids of the send_message calls
\* with wait_for_response that have not yet returned: the id is in it when
\* the message is in the queue, and it is out of it once the call has
\* returned, however it ended.
C36_PendingAreWaiting ==
  /\ pending_responses = {m \in Created : caller[m] = "waiting"}
  /\ \A m \in Created :
       /\ (messages[m].wait /\ Count(message_queue, m) = 1 /\ caller[m] # "returned")
            => m \in pending_responses
       /\ caller[m] = "returned" => m \notin pending_responses
       /\ ~messages[m].wait => m \notin pending_responses

\* two calls have returned, one with the timeout response and one with the
\* error response of a handler or for an unknown receiver, and the map is
\* empty
C36_Witness ==
  /\ pending_responses = {}
  /\ \E m, n \in Created :
       /\ caller[m] = "returned" /\ IsTimeout(response[m])
       /\ caller[n] = "returned" /\ ~response[n].success /\ ~IsTimeout(response[n])

\* the improvements that the first k iterations of the invocation call for:
\* those for the issues of each iteration that scored below the threshold
RECURSIVE ImprovementsDue(_)
ImprovementsDue(k) ==
  IF k = 0 THEN <<>>
  ELSE ImprovementsDue(k - 1) \o
         (IF stream[k] < quality_threshold THEN issues_found(stream[k]) ELSE <<>>)

\* C34: the log of improvements holds, in order, one entry per issue of
\* each iteration that scored below the threshold and none of the iteration
\* that met it, and only iterations below the threshold apply improvements.
C34_ImprovementsLogged ==
  /\ Returned => improvements_made = ImprovementsDue(calls)
  /\ qpc = "assessing" => improvements_made = ImprovementsDue(calls - 1)
  /\ \A i \in applied : stream[i] < quality_threshold

\* two iterations with issues were improved, an iteration without issue
\* was not, and the iteration that met the threshold left its issue alone
C34_Witness ==
  /\ Returned
  /\ calls = 4
  /\ stream[2] = 6
  /\ stream[4] = 9
  /\ applied = {1, 3}
  /\ Len(improvements_made) = 4

\* the progress p is 1.0
IsOne(p) == p[1] = p[2]

\* execute is between its call and its return
OpExecuting == opPc \in {"task", "sleeping"}

\* C39: once cancel has been called during execute no further task is
\* started, and when execute returns the state is still "cancelled" and the
\* progress has not been set to 1.0.
C39_CancelSticks ==
  [][(OpExecuting /\ opState = "cancelled") =>
       /\ opStarted' = opStarted
       /\ opState' = "cancelled"
       /\ (opPc' = "done" /\ ~IsOne(opProgress)) => ~IsOne(opProgress')]_vars
====
